---- MODULE Spec2Model ----
(***************************************************************************)
(* Model of rmk/src/ble.rs: the BLE coordination core of the keyboard      *)
(* firmware.                                                               *)
(*                                                                         *)
(*   flash_task         drains FLASH_CHANNEL and applies every request to  *)
(*                      the bond store (remove_item / store_item)          *)
(*   keyboard_ble_task  2 s startup timer, then scan + four report sends   *)
(*   ble_battery_task   2 s startup timer, one battery push, 10 s timer    *)
(*   softdevice_task    runs the softdevice                                *)
(*                                                                         *)
(* The tasks run on one cooperative executor: a task runs from one await   *)
(* to the next without interruption, so every action below is the code     *)
(* between two awaits.  Time is counted in whole seconds.                  *)
(***************************************************************************)
EXTENDS Integers, Sequences, FiniteSets, TLC

VARIABLES
    FLASH_CHANNEL,   \* requests waiting in the bonding mailbox, oldest first
    store,           \* bond flash region as a map: key -> stored item or NoRecord
    flash_pc,        \* the await flash_task is suspended at
    flash_info,      \* `info`, the request flash_task is handling
    inflight,        \* storage operations issued and not yet completed
    enqueued,        \* history: every request enqueued, in enqueue order
    senders,         \* history: the producers that have enqueued a request
    applied,         \* history: every completed storage operation of flash_task
    now,             \* the clock, in seconds
    kb_pc,           \* the await keyboard_ble_task is suspended at
    kb_start,        \* time keyboard_ble_task started
    kb_timer,        \* deadline of the timer keyboard_ble_task waits for
    kb_log,          \* history: the operations attempted in the cycle, in order
    kb_err,          \* history: the first operation of kb_log that returned an error
    kb_done,         \* history: the number of operations of kb_log that have returned
    bat_pc,          \* the await ble_battery_task is suspended at
    bat_start,       \* time ble_battery_task started
    bat_timer,       \* deadline of the timer ble_battery_task waits for
    bat_pushes,      \* history: time of every set_battery_value call
    sd_pc,           \* softdevice_task
    keyboard_name_len, \* keyboard_name.len() of the name given to nrf_ble_config
    config           \* the Config built by nrf_ble_config, NoConfig before the call

flashVars == <<FLASH_CHANNEL, store, flash_pc, flash_info, inflight, enqueued, senders,
              applied>>
kbVars == <<kb_pc, kb_start, kb_timer, kb_log, kb_err, kb_done>>
batVars == <<bat_pc, bat_start, bat_timer, bat_pushes>>
vars == <<FLASH_CHANNEL, store, flash_pc, flash_info, inflight, enqueued, senders, applied,
          now, kb_pc, kb_start, kb_timer, kb_log, kb_err, kb_done,
          bat_pc, bat_start, bat_timer, bat_pushes, sd_pc, keyboard_name_len, config>>
cfgVars == <<keyboard_name_len, config>>

(***************************************************************************)
(* Bounds of the model                                                     *)
(***************************************************************************)
MaxData == 2
MailboxCapacity == 2
MaxStart == 0
MaxTime == 12
\* requests enqueued by the producer of the bonding path taken alone
MaxRequests == 3
\* device names given to nrf_ble_config: lengths 0..MaxNameLen, and the same
\* lengths after up to MaxWraps times 65536 more bytes
MaxNameLen == 31
MaxWraps == 1

(***************************************************************************)
(* Program constants                                                       *)
(***************************************************************************)
BONDED_DEVICE_NUM == 8
KeyboardStartupSecs == 2
BatteryStartupSecs == 2
BatteryPeriodSecs == 10
BatteryLevel == 50
U16Modulus == 65536

(***************************************************************************)
(* Requests.  A slot number is a u8; the model draws the two values around *)
(* BONDED_DEVICE_NUM.  Data stands for the peer identity and key material  *)
(* of a BondInfo.                                                          *)
(***************************************************************************)
SlotInputs == {BONDED_DEVICE_NUM - 1, BONDED_DEVICE_NUM}
Data == 1..MaxData
NoRecord == 0
NoMsg == [tag |-> "none"]

BondInfo == [slot_num : SlotInputs, data : Data]

FlashOperationMessage ==
    [tag : {"Clear"}, key : SlotInputs] \cup [tag : {"BondInfo"}, b : BondInfo]

Producers == {"bonder", "other"}

EmptyStore == [k \in SlotInputs |-> NoRecord]

(***************************************************************************)
(* The storage operations of sequential_storage::map, seen as a map.       *)
(***************************************************************************)
RemoveItem(s, key) == [s EXCEPT ![key] = NoRecord]

StoreItem(s, b) == [s EXCEPT ![b.slot_num] = b.data]

\* Faulty variants of StorageCall: the Clear arm ignores `key`; the BondInfo arm
\* is a copy of the Clear arm.
StorageCall_fixed_key(info) ==
    IF info.tag = "Clear"
    THEN [op |-> "remove_item", key |-> BONDED_DEVICE_NUM - 1, data |-> NoRecord]
    ELSE [op |-> "store_item", key |-> info.b.slot_num, data |-> info.b.data]

StorageCall_copied_arm(info) ==
    IF info.tag = "Clear"
    THEN [op |-> "remove_item", key |-> info.key, data |-> NoRecord]
    ELSE [op |-> "remove_item", key |-> info.b.slot_num, data |-> NoRecord]

\* Faulty variant of StorageCall: the slot is clamped to the last valid one.
StorageCall_clamped(info) ==
    LET Clamp(k) == IF k < BONDED_DEVICE_NUM THEN k ELSE BONDED_DEVICE_NUM - 1
    IN IF info.tag = "Clear"
       THEN [op |-> "remove_item", key |-> Clamp(info.key), data |-> NoRecord]
       ELSE [op |-> "store_item", key |-> Clamp(info.b.slot_num), data |-> info.b.data]

\* The storage call flash_task makes for a request: the two arms of the match.
StorageCall(info) ==
    IF info.tag = "Clear"
    THEN [op |-> "remove_item", key |-> info.key, data |-> NoRecord]
    ELSE [op |-> "store_item", key |-> info.b.slot_num, data |-> info.b.data]

\* The store after a storage call has taken effect.
Effect(s, call) ==
    IF call.op = "remove_item"
    THEN RemoveItem(s, call.key)
    ELSE StoreItem(s, [slot_num |-> call.key, data |-> call.data])

\* What a storage call can come back with.  Without a fault of the medium it
\* succeeds and has taken effect, whether or not the key was present.  With a
\* fault it returns Err, and the flash holds either the old or the new contents.
StorageOutcomes(s, call, fault) ==
    IF fault
    THEN {[res |-> "err", store |-> s], [res |-> "err", store |-> Effect(s, call)]}
    ELSE {[res |-> "ok", store |-> Effect(s, call)]}

\* Faulty variant of Receive: the newest request leaves the channel.
Receive_newest(ch) == [msg |-> ch[Len(ch)], rest |-> SubSeq(ch, 1, Len(ch) - 1)]

\* Faulty variant of Receive: the request is read and left in the channel.
Receive_peek(ch) == [msg |-> Head(ch), rest |-> ch]

\* FLASH_CHANNEL.receive(): the oldest request leaves the channel.
Receive(ch) == [msg |-> Head(ch), rest |-> Tail(ch)]

\* Faulty variant of FlashCanReceive: the storage call is not awaited.
FlashCanReceive_no_await == TRUE

\* flash_task is at the top of its loop, awaiting FLASH_CHANNEL.receive().
\* Faulty variant of FlashCanReceive: a full mailbox is served at once, the
\* storage call of the request before still running.
FlashCanReceive_if_mailbox_full ==
    flash_pc = "receive" \/ Len(FLASH_CHANNEL) = MailboxCapacity

\* Faulty variant of FlashCanReceive: requests are taken only from a full
\* mailbox.
FlashCanReceive_when_full ==
    flash_pc = "receive" /\ Len(FLASH_CHANNEL) = MailboxCapacity

\* Faulty variant of FlashCanReceive: the mailbox is polled from the keyboard
\* loop, during the scan, and not while a report is being sent.
FlashCanReceive_during_scan ==
    flash_pc = "receive" /\ kb_pc = "scan_matrix"

FlashCanReceive == flash_pc = "receive"

\* Faulty variant of AfterStorage: `.unwrap()` in place of `.ok()`.
AfterStorage_unwrap(res) == IF res = "err" THEN "panicked" ELSE "receive"

\* `.ok()` discards the Result of the storage call; the loop goes round.
AfterStorage(res) == "receive"

(***************************************************************************)
(* nrf_ble_config.  A name is seen through its byte length, the one thing  *)
(* the function reads of it besides its address.                           *)
(***************************************************************************)
NameLens ==
    {n + w * U16Modulus : n \in 0..MaxNameLen, w \in 0..MaxWraps} \cup {U16Modulus - 1}

NoConfig == [built |-> FALSE]

\* `len as u16`: the low 16 bits of a usize.
AsU16(n) == n % U16Modulus

\* Faulty variant of nrf_ble_config: max_len leaves room for a terminator.
nrf_ble_config_terminated(len) ==
    [rc_ctiv |-> 16, rc_temp_ctiv |-> 2,
     conn_count |-> 6, event_length |-> 24, att_mtu |-> 256,
     adv_set_count |-> 1, periph_role_count |-> 3, central_role_count |-> 3,
     central_sec_count |-> 0,
     current_len |-> AsU16(len), max_len |-> AsU16(len + 1)]

nrf_ble_config(len) ==
    [rc_ctiv |-> 16, rc_temp_ctiv |-> 2,
     conn_count |-> 6, event_length |-> 24, att_mtu |-> 256,
     adv_set_count |-> 1, periph_role_count |-> 3, central_role_count |-> 3,
     central_sec_count |-> 0,
     current_len |-> AsU16(len), max_len |-> AsU16(len)]

\* The caller builds the configuration from its name.
BuildConfig ==
    /\ config = NoConfig
    /\ config' = nrf_ble_config(keyboard_name_len)
    /\ UNCHANGED <<flashVars, now, kbVars, batVars, sd_pc, keyboard_name_len>>

(***************************************************************************)
(* Producers: code outside ble.rs sends requests into FLASH_CHANNEL.       *)
(***************************************************************************)
Enqueue(p, m) ==
    /\ Len(FLASH_CHANNEL) < MailboxCapacity
    /\ FLASH_CHANNEL' = Append(FLASH_CHANNEL, m)
    /\ enqueued' = Append(enqueued, m)
    /\ senders' = senders \cup {p}
    /\ UNCHANGED <<store, flash_pc, flash_info, inflight, applied>>
    /\ UNCHANGED <<now, kbVars, batVars, sd_pc, cfgVars>>

(***************************************************************************)
(* flash_task                                                              *)
(***************************************************************************)
\* receive().await returns a request; the matching storage call is issued.
FlashReceive ==
    /\ FlashCanReceive
    /\ FLASH_CHANNEL # <<>>
    /\ LET r == Receive(FLASH_CHANNEL)
           call == StorageCall(r.msg)
       IN /\ FLASH_CHANNEL' = r.rest
          /\ flash_info' = r.msg
          /\ flash_pc' = call.op
          /\ inflight' = Append(inflight, [by |-> "flash_task", call |-> call])
    /\ UNCHANGED <<store, enqueued, senders, applied>>
    /\ UNCHANGED <<now, kbVars, batVars, sd_pc, cfgVars>>

\* The storage call completes; its Result is dropped by `.ok()`.
FlashStorageDone ==
    /\ flash_pc \in {"remove_item", "store_item"}
    /\ inflight # <<>>
    /\ \E fault \in BOOLEAN :
         \E out \in StorageOutcomes(store, Head(inflight).call, fault) :
            /\ store' = out.store
            /\ applied' = Append(applied, [req |-> flash_info,
                                           op |-> Head(inflight).call.op,
                                           res |-> out.res])
            /\ flash_pc' = AfterStorage(out.res)
    /\ inflight' = Tail(inflight)
    /\ flash_info' = NoMsg
    /\ UNCHANGED <<FLASH_CHANNEL, enqueued, senders>>
    /\ UNCHANGED <<now, kbVars, batVars, sd_pc, cfgVars>>

flash_task == FlashReceive \/ FlashStorageDone

(***************************************************************************)
(* Time.  Timer::after_secs(n) is ready n seconds after it was created.    *)
(* The executor polls a ready task before more time passes, so the clock   *)
(* does not move while an expired timer is waiting to be served.           *)
(***************************************************************************)
\* Faulty variant of TimerExpired: the timer is not awaited.
TimerExpired_no_await(deadline) == TRUE

TimerExpired(deadline) == now >= deadline

TimerPending ==
    \/ kb_pc = "startup_timer" /\ TimerExpired(kb_timer)
    \/ bat_pc \in {"startup_timer", "period_timer"} /\ TimerExpired(bat_timer)

Tick ==
    /\ now < MaxTime
    /\ ~TimerPending
    /\ now' = now + 1
    /\ UNCHANGED <<flashVars, kbVars, batVars, sd_pc, cfgVars>>

(***************************************************************************)
(* keyboard_ble_task                                                       *)
(***************************************************************************)
\* The body of the loop, in program order.
CycleOrder ==
    <<"scan_matrix", "send_keyboard_report", "send_media_report",
      "send_system_control_report", "send_mouse_report">>

SendOps == {CycleOrder[i] : i \in 2..Len(CycleOrder)}

IndexOf(op) == CHOOSE i \in 1..Len(CycleOrder) : CycleOrder[i] = op

\* Faulty variant of NextOp: the media and system control sends are exchanged.
NextOp_exchanged(op) ==
    CASE op = "send_keyboard_report" -> "send_system_control_report"
      [] op = "send_system_control_report" -> "send_media_report"
      [] op = "send_media_report" -> "send_mouse_report"
      [] op = "send_mouse_report" -> "scan_matrix"
      [] OTHER -> "send_keyboard_report"

\* The statement after `op`; the loop goes back to the scan after the last send.
NextOp(op) == CycleOrder[(IndexOf(op) % Len(CycleOrder)) + 1]

\* Faulty variants of AfterScan: an error of the scan ends the task (`?`); an
\* error of the scan starts the loop body again (`continue`).
AfterScan_propagate(res) == IF res = "err" THEN "returned" ELSE NextOp("scan_matrix")

AfterScan_continue(res) == IF res = "err" THEN "scan_matrix" ELSE NextOp("scan_matrix")

\* `let _ = keyboard.scan_matrix().await;` drops the result of the scan.
AfterScan(res) == NextOp("scan_matrix")

\* Faulty variant of AfterSend: a failed send ends the task.
AfterSend_abort(op, res) == IF res = "err" THEN "returned" ELSE NextOp(op)

\* The sends return nothing to the loop; the next statement follows.
AfterSend(op, res) == NextOp(op)

\* Faulty variant of Issued: the four sends of a cycle are joined, all of them
\* begun when the scan has returned.
Issued_joined(next) ==
    IF next = "send_keyboard_report"
    THEN SubSeq(CycleOrder, 2, Len(CycleOrder))
    ELSE IF next \in SendOps THEN <<>> ELSE <<next>>

\* The operations begun when control reaches `next`: each statement of the loop
\* body is one call followed by `.await`, so it is that one operation.
Issued(next) == <<next>>

\* The log of a cycle is kept until the scan of the next cycle has returned.
StartOfCycle(log) == IF Len(log) > Len(CycleOrder) THEN <<log[Len(log)]>> ELSE log

\* The await at kb_pc returned `res` and control moves to `next`.
KbAdvance(res, next) ==
    LET fresh == Len(kb_log) > Len(CycleOrder)
        err == IF fresh THEN "none" ELSE kb_err
    IN /\ kb_pc' = next
       /\ kb_log' = IF next \in SendOps \cup {"scan_matrix"}
                    THEN StartOfCycle(kb_log) \o Issued(next)
                    ELSE StartOfCycle(kb_log)
       /\ kb_err' = IF res = "err" /\ err = "none" THEN kb_pc ELSE err
       /\ kb_done' = (IF fresh THEN 0 ELSE kb_done) + 1
       /\ UNCHANGED <<kb_start, kb_timer>>

KbStart ==
    /\ kb_pc = "unstarted"
    /\ now <= MaxStart
    /\ kb_pc' = "startup_timer"
    /\ kb_start' = now
    /\ kb_timer' = now + KeyboardStartupSecs
    /\ UNCHANGED <<kb_log, kb_err, kb_done>>
    /\ UNCHANGED <<flashVars, now, batVars, sd_pc, cfgVars>>

\* Timer::after_secs(2) is over: the loop is entered and the first scan begins.
KbStartupElapsed ==
    /\ kb_pc = "startup_timer"
    /\ TimerExpired(kb_timer)
    /\ kb_pc' = "scan_matrix"
    /\ kb_log' = <<"scan_matrix">>
    /\ kb_done' = 0
    /\ UNCHANGED <<kb_start, kb_timer, kb_err>>
    /\ UNCHANGED <<flashVars, now, batVars, sd_pc, cfgVars>>

KbScanDone ==
    /\ kb_pc = "scan_matrix"
    /\ \E res \in {"ok", "err"} : KbAdvance(res, AfterScan(res))
    /\ UNCHANGED <<flashVars, now, batVars, sd_pc, cfgVars>>

KbSendDone ==
    /\ kb_pc \in SendOps
    /\ \E res \in {"ok", "err"} : KbAdvance(res, AfterSend(kb_pc, res))
    /\ UNCHANGED <<flashVars, now, batVars, sd_pc, cfgVars>>

keyboard_ble_task == KbStart \/ KbStartupElapsed \/ KbScanDone \/ KbSendDone

(***************************************************************************)
(* ble_battery_task                                                        *)
(***************************************************************************)
BatStart ==
    /\ bat_pc = "unstarted"
    /\ now <= MaxStart
    /\ bat_pc' = "startup_timer"
    /\ bat_start' = now
    /\ bat_timer' = now + BatteryStartupSecs
    /\ UNCHANGED bat_pushes
    /\ UNCHANGED <<flashVars, now, kbVars, sd_pc, cfgVars>>

\* Timer::after_secs(2) is over: set_battery_value(conn, &50), then the loop
\* is entered and its timer armed.
BatStartupElapsed ==
    /\ bat_pc = "startup_timer"
    /\ TimerExpired(bat_timer)
    /\ bat_pushes' = Append(bat_pushes, [at |-> now, level |-> BatteryLevel])
    /\ bat_pc' = "period_timer"
    /\ bat_timer' = now + BatteryPeriodSecs
    /\ UNCHANGED bat_start
    /\ UNCHANGED <<flashVars, now, kbVars, sd_pc, cfgVars>>

\* Timer::after_secs(10) is over: the loop body holds nothing else, so the
\* timer is armed again.
BatPeriodElapsed ==
    /\ bat_pc = "period_timer"
    /\ TimerExpired(bat_timer)
    /\ bat_timer' = now + BatteryPeriodSecs
    /\ UNCHANGED <<bat_pc, bat_start, bat_pushes>>
    /\ UNCHANGED <<flashVars, now, kbVars, sd_pc, cfgVars>>

ble_battery_task == BatStart \/ BatStartupElapsed \/ BatPeriodElapsed

(***************************************************************************)
(* softdevice_task: sd.run() never returns.                                *)
(***************************************************************************)
SoftdeviceStart ==
    /\ sd_pc = "unstarted"
    /\ sd_pc' = "run"
    /\ UNCHANGED <<flashVars, now, kbVars, batVars, cfgVars>>

softdevice_task == SoftdeviceStart

(***************************************************************************)
(* Specifications                                 *)
(***************************************************************************)
InitFlash ==
    /\ FLASH_CHANNEL = <<>>
    /\ store = EmptyStore
    /\ flash_pc = "receive"
    /\ flash_info = NoMsg
    /\ inflight = <<>>
    /\ enqueued = <<>>
    /\ senders = {}
    /\ applied = <<>>

InitTasks ==
    /\ now = 0
    /\ kb_pc = "unstarted"
    /\ kb_start = 0
    /\ kb_timer = 0
    /\ kb_log = <<>>
    /\ kb_err = "none"
    /\ kb_done = 0
    /\ bat_pc = "unstarted"
    /\ bat_start = 0
    /\ bat_timer = 0
    /\ bat_pushes = <<>>
    /\ sd_pc = "unstarted"

\* The configuration is built, from a 3-byte name, before the tasks are spawned.
InitConfigured ==
    /\ keyboard_name_len = 3
    /\ config = nrf_ble_config(3)

Init == InitFlash /\ InitTasks /\ InitConfigured

\* nrf_ble_config alone, called once with any of the names.
InitConfig ==
    /\ InitFlash
    /\ InitTasks
    /\ keyboard_name_len \in NameLens
    /\ config = NoConfig

NextConfig == BuildConfig

SpecConfig == InitConfig /\ [][NextConfig]_vars

\* One producer sends up to MaxRequests requests to flash_task.
NextFlash ==
    \/ \E m \in FlashOperationMessage : Len(enqueued) < MaxRequests /\ Enqueue("bonder", m)
    \/ FlashReceive
    \/ FlashStorageDone

SpecFlash == Init /\ [][NextFlash]_vars

\* The bonding path with a fair executor and a storage whose calls return:
\* flash_task is polled when a request is waiting in the mailbox, and every
\* storage call completes, with success or with an error.
FairFlash ==
    /\ WF_vars(FlashReceive)
    /\ WF_vars(FlashStorageDone)

SpecFlashFair == Init /\ [][NextFlash]_vars /\ FairFlash

\* The bonding path with a store of the slots 0..BONDED_DEVICE_NUM, one more
\* than the maximum, and a producer that saves its n-th bond under slot n.
ManySlots == 0..BONDED_DEVICE_NUM

InitManyBonds ==
    /\ FLASH_CHANNEL = <<>>
    /\ store = [k \in ManySlots |-> NoRecord]
    /\ flash_pc = "receive"
    /\ flash_info = NoMsg
    /\ inflight = <<>>
    /\ enqueued = <<>>
    /\ senders = {}
    /\ applied = <<>>
    /\ InitTasks
    /\ InitConfigured

SaveNextBond ==
    /\ Len(enqueued) \in ManySlots
    /\ Enqueue("bonder", [tag |-> "BondInfo",
                          b |-> [slot_num |-> Len(enqueued), data |-> 1]])

NextManyBonds ==
    \/ SaveNextBond
    \/ FlashReceive
    \/ FlashStorageDone

SpecManyBonds == InitManyBonds /\ [][NextManyBonds]_vars

\* keyboard_ble_task and ble_battery_task under the clock.
NextTasks ==
    \/ Tick
    \/ KbStart
    \/ KbStartupElapsed
    \/ KbScanDone
    \/ KbSendDone
    \/ BatStart
    \/ BatStartupElapsed
    \/ BatPeriodElapsed

SpecTasks == Init /\ [][NextTasks]_vars

\* The whole program: the four tasks, the clock, and the producers, each of
\* which has one request to send.
Next ==
    \/ \E p \in Producers \ senders : \E m \in FlashOperationMessage : Enqueue(p, m)
    \/ FlashReceive
    \/ FlashStorageDone
    \/ Tick
    \/ KbStart
    \/ KbStartupElapsed
    \/ KbScanDone
    \/ KbSendDone
    \/ BatStart
    \/ BatStartupElapsed
    \/ BatPeriodElapsed
    \/ SoftdeviceStart

Spec == Init /\ [][Next]_vars

(***************************************************************************)
(* Properties of the bonding path                                          *)
(***************************************************************************)
\* A request applied directly to the store, without mailbox or task.
DirectApply(s, m) ==
    IF m.tag = "Clear" THEN RemoveItem(s, m.key) ELSE StoreItem(s, m.b)

RECURSIVE ApplyAll(_, _)
ApplyAll(s, reqs) ==
    IF reqs = <<>> THEN s ELSE ApplyAll(DirectApply(s, Head(reqs)), Tail(reqs))

Reverse(q) == [i \in 1..Len(q) |-> q[Len(q) + 1 - i]]

\* Every request enqueued so far has been received and its storage call is over.
Drained ==
    /\ FLASH_CHANNEL = <<>>
    /\ flash_pc = "receive"
    /\ Len(applied) = Len(enqueued)

AllOk == \A i \in DOMAIN applied : applied[i].res = "ok"

LastApplied == applied[Len(applied)]

\* C1: once flash_task has drained the mailbox, and every storage operation
\* succeeded, the store holds what the enqueued requests give when they are
\* applied directly to the store in enqueue order.
C1_FifoApplyEquivalence ==
    (Drained /\ AllOk) => store = ApplyAll(EmptyStore, enqueued)

\* Three requests drained whose order matters: the reverse order gives another store.
C1_Witness ==
    /\ Drained
    /\ AllOk
    /\ Len(enqueued) = 3
    /\ ApplyAll(EmptyStore, Reverse(enqueued)) # store

\* C2: at most one store/remove operation on the bond flash region is in
\* flight at any time, and flash_task is the task that issued it, whatever
\* the producers and the keyboard, battery and softdevice tasks are doing.
C2_SingleWriter ==
    /\ Len(inflight) <= 1
    /\ \A i \in DOMAIN inflight : inflight[i].by = "flash_task"
    /\ (inflight # <<>>) <=> (flash_pc \in {"remove_item", "store_item"})

\* A storage operation is in flight while a request of another producer waits
\* and the three other tasks are running.
C2_Witness ==
    /\ Len(inflight) = 1
    /\ FLASH_CHANNEL # <<>>
    /\ senders = Producers
    /\ kb_pc \in SendOps
    /\ bat_pc = "period_timer"
    /\ sd_pc = "run"

FlashRunning == flash_pc \in {"receive", "remove_item", "store_item"}

\* This step completes a storage call with the given result.
StorageReturns(res) ==
    /\ Len(applied') = Len(applied) + 1
    /\ applied'[Len(applied')].res = res

\* C6: a storage operation that fails while flash_task handles a request is
\* discarded: the step that takes the error leaves flash_task at its receive,
\* changes neither the mailbox nor any other task, and flash_task, which never
\* stops, receives the next request as soon as one is waiting.
C6_StorageFailureDiscarded ==
    /\ [](FlashRunning)
    /\ []((flash_pc = "receive" /\ FLASH_CHANNEL # <<>>) => ENABLED FlashReceive)
    /\ [][StorageReturns("err") =>
            /\ flash_pc' = "receive"
            /\ UNCHANGED <<FLASH_CHANNEL, enqueued, now, kbVars, batVars, sd_pc>>]_vars

\* A storage call failed and the call of a later request succeeded.
C6_Witness ==
    \E i, j \in DOMAIN applied :
        /\ i < j
        /\ applied[i].res = "err"
        /\ applied[j].res = "ok"
        /\ store = DirectApply(EmptyStore, applied[j].req)
        /\ store # EmptyStore

\* This step completes Clear(k) with success.
ClearApplied(k) ==
    /\ flash_info = [tag |-> "Clear", key |-> k]
    /\ StorageReturns("ok")

\* C7: Clear(slot) applied by flash_task leaves no record at the slot, the first
\* time and every time after; on a slot that holds no record it succeeds and
\* leaves the store as it was; and flash_task raises no error in either case.
C7_ClearIdempotent ==
    /\ [](FlashRunning)
    /\ [](\A k \in SlotInputs :
            store[k] = NoRecord =>
               StorageOutcomes(store, [op |-> "remove_item", key |-> k, data |-> NoRecord],
                               FALSE)
                  = {[res |-> "ok", store |-> store]})
    /\ [][\A k \in SlotInputs :
            ClearApplied(k) =>
               /\ store'[k] = NoRecord
               /\ store[k] = NoRecord => store' = store
               /\ flash_pc' = "receive"]_vars

\* Save to a slot, then Clear of the slot twice in a row, all three successful.
C7_Witness ==
    /\ Len(applied) = 3
    /\ AllOk
    /\ applied[1].req.tag = "BondInfo"
    /\ applied[2].req = [tag |-> "Clear", key |-> applied[1].req.b.slot_num]
    /\ applied[3].req = applied[2].req
    /\ store[applied[3].req.key] = NoRecord

\* C8: after flash_task has applied Save(record), the slot of the record holds
\* exactly that record, whatever the slot held before: of two Saves to one
\* slot the later one is the one stored.
C8_SaveLastWriteWins ==
    (applied # <<>> /\ LastApplied.res = "ok" /\ LastApplied.req.tag = "BondInfo")
        => store[LastApplied.req.b.slot_num] = LastApplied.req.b.data

\* Two successful Saves of different records to one slot, one after the other.
C8_Witness ==
    /\ Len(applied) >= 2
    /\ LET n == Len(applied)
           first == applied[n - 1]
           second == applied[n]
       IN /\ first.res = "ok" /\ second.res = "ok"
          /\ first.req.tag = "BondInfo" /\ second.req.tag = "BondInfo"
          /\ first.req.b.slot_num = second.req.b.slot_num
          /\ first.req.b.data # second.req.b.data
          /\ store[second.req.b.slot_num] = second.req.b.data

\* C10: a request whose slot index is 8 or greater never reaches the store: no
\* storage operation is issued for a key outside 0..7 and no such key is stored.
C10_SlotBound ==
    /\ \A i \in DOMAIN inflight : inflight[i].call.key \in 0..7
    /\ \A k \in SlotInputs : store[k] # NoRecord => k \in 0..7

(***************************************************************************)
(* Properties of the keyboard and battery tasks                            *)
(***************************************************************************)
\* Pushes whose time lies in [lo, hi).
PushesIn(lo, hi) ==
    Cardinality({i \in DOMAIN bat_pushes : lo <= bat_pushes[i].at /\ bat_pushes[i].at < hi})

\* The k-th 10-second period after the 2-second startup delay starts here.
PeriodStart(k) == bat_start + 2 + 10 * k

\* The k-th period has begun and the battery task has run at its start.
PeriodBegun(k) ==
    \/ now > PeriodStart(k)
    \/ now = PeriodStart(k) /\ bat_timer > now

\* C3: ble_battery_task pushes the battery level exactly once in every
\* 10-second period after the startup delay.
C3_OnePushPerPeriod ==
    bat_pc # "unstarted" =>
        \A k \in 0..(MaxTime \div 10) :
            PeriodBegun(k) => PushesIn(PeriodStart(k), PeriodStart(k) + 10) = 1

\* C4: no report is sent by keyboard_ble_task and no battery level is pushed
\* by ble_battery_task before 2 seconds have passed since the task started.
C4_NoSendBeforeStartup ==
    /\ kb_pc \in SendOps => now >= kb_start + 2
    /\ \A i \in DOMAIN kb_log : kb_log[i] \in SendOps => now >= kb_start + 2
    /\ \A i \in DOMAIN bat_pushes : bat_pushes[i].at >= bat_start + 2

\* The first send and the battery push, both at the earliest time allowed.
C4_Witness ==
    /\ kb_pc = "send_keyboard_report"
    /\ now = kb_start + 2
    /\ Len(bat_pushes) = 1
    /\ bat_pushes[1].at = bat_start + 2

\* One cycle as the claim has it, followed by the scan of the next cycle.
ExpectedCycle ==
    <<"scan_matrix", "send_keyboard_report", "send_media_report",
      "send_system_control_report", "send_mouse_report", "scan_matrix">>

\* C5: a cycle of keyboard_ble_task is one scan, then one attempt per sink in
\* the order keyboard, media, system control, mouse, each begun when the one
\* before has returned; the next scan begins after the mouse attempt.
C5_ScanThenSendsInOrder ==
    /\ Len(kb_log) <= Len(ExpectedCycle)
    /\ \A i \in DOMAIN kb_log : kb_log[i] = ExpectedCycle[i]
    /\ (kb_log = <<>>) <=> (kb_pc \in {"unstarted", "startup_timer"})
    /\ kb_log # <<>> => kb_pc = kb_log[Len(kb_log)]

\* A whole cycle has been run and the scan of the next cycle has begun.
C5_Witness ==
    /\ Len(kb_log) = Len(ExpectedCycle)
    /\ kb_pc = "scan_matrix"

\* This step takes the first failure of the cycle, on the sink kb_pc.
SendFails ==
    /\ kb_pc \in SendOps
    /\ kb_err # kb_pc
    /\ kb_err' = kb_pc

\* The sink, or the scan, that the claim has follow `op`.
ExpectedAfter(op) ==
    CASE op = "send_keyboard_report" -> "send_media_report"
      [] op = "send_media_report" -> "send_system_control_report"
      [] op = "send_system_control_report" -> "send_mouse_report"
      [] op = "send_mouse_report" -> "scan_matrix"

\* C9: a failed send does not end the cycle or the loop: the step that takes
\* the failure goes on to the sink that follows (the next scan after the mouse
\* sink), as a successful send does, and keyboard_ble_task never returns.
C9_SendFailureDoesNotAbort ==
    /\ [](kb_pc # "returned")
    /\ [][SendFails =>
            /\ kb_pc' = ExpectedAfter(kb_pc)
            /\ kb_log' = Append(StartOfCycle(kb_log), ExpectedAfter(kb_pc))]_vars

\* The keyboard sink failed, the three other sinks were attempted all the same
\* and the scan of the next cycle has begun.
C9_Witness ==
    /\ kb_err = "send_keyboard_report"
    /\ Len(kb_log) = Len(ExpectedCycle)
    /\ kb_pc = "scan_matrix"

(***************************************************************************)
(* Further properties of the bonding path                                  *)
(***************************************************************************)
\* The storage operation the claims have a request cause.
ExpectedOp(m) == IF m.tag = "Clear" THEN "remove_item" ELSE "store_item"

\* Requests received so far by flash_task.
Received == Len(applied) + Len(inflight)

\* C11: every request placed in the mailbox is consumed exactly once: the
\* requests enqueued are, in order, those applied, the one being applied and
\* those still waiting, and each applied request caused one storage operation,
\* remove_item for Clear and store_item for Save, whether it succeeded or not.
C11_ConsumedExactlyOnce ==
    /\ Len(inflight) <= 1
    /\ Received + Len(FLASH_CHANNEL) = Len(enqueued)
    /\ \A i \in DOMAIN applied :
          /\ applied[i].req = enqueued[i]
          /\ applied[i].op = ExpectedOp(enqueued[i])
    /\ \A i \in DOMAIN inflight :
          /\ flash_info = enqueued[Len(applied) + i]
          /\ inflight[i].call.op = ExpectedOp(flash_info)
    /\ \A i \in DOMAIN FLASH_CHANNEL : FLASH_CHANNEL[i] = enqueued[Received + i]

\* Three requests consumed, one of them with a failed storage operation.
C11_Witness ==
    /\ Len(enqueued) = 3
    /\ Len(applied) = 3
    /\ FLASH_CHANNEL = <<>>
    /\ \E i \in DOMAIN applied : applied[i].res = "err"
    /\ \E i \in DOMAIN applied : applied[i].op = "remove_item"
    /\ \E i \in DOMAIN applied : applied[i].op = "store_item"

\* The slots that hold a record.
LiveRecords == {k \in DOMAIN store : store[k] # NoRecord}

\* C12: the bond store holds at most 8 live records after any sequence of
\* Save and Clear requests applied by flash_task.  (The store is a map from
\* slot to record, so a slot never holds two records.)
C12_AtMostEightRecords == Cardinality(LiveRecords) <= 8

(***************************************************************************)
(* Properties of the whole program                                         *)
(***************************************************************************)
\* C13: no task ever returns: whatever the requests, storage failures, scan
\* results and send failures, each task is not yet spawned or suspended at one
\* of its awaits (receive, storage call, timer, scan, send, softdevice run).
C13_TasksNeverReturn ==
    /\ flash_pc \in {"receive", "remove_item", "store_item"}
    /\ kb_pc \in {"unstarted", "startup_timer", "scan_matrix", "send_keyboard_report",
                  "send_media_report", "send_system_control_report", "send_mouse_report"}
    /\ bat_pc \in {"unstarted", "startup_timer", "period_timer"}
    /\ sd_pc \in {"unstarted", "run"}

\* A storage call and a scan have failed, a whole cycle has followed the failed
\* scan, and all four tasks are at an await.
C13_Witness ==
    /\ \E i \in DOMAIN applied : applied[i].res = "err"
    /\ flash_pc = "receive"
    /\ kb_err = "scan_matrix"
    /\ Len(kb_log) = 6
    /\ kb_pc = "scan_matrix"
    /\ bat_pc = "period_timer"
    /\ now = MaxTime
    /\ sd_pc = "run"

(***************************************************************************)
(* Properties of nrf_ble_config                                            *)
(***************************************************************************)
\* The fields of the configuration that do not depend on the name.
FixedFields ==
    /\ config.conn_count = 6
    /\ config.event_length = 24
    /\ config.att_mtu = 256
    /\ config.adv_set_count = 1
    /\ config.periph_role_count = 3
    /\ config.central_role_count = 3
    /\ config.central_sec_count = 0

LengthsAreNameLength ==
    /\ config.current_len = keyboard_name_len
    /\ config.max_len = keyboard_name_len

\* C14, as claimed: for every name, nrf_ble_config(name) has current_len and
\* max_len equal to the byte length of the name, with conn_count 6,
\* event_length 24, att_mtu 256, adv_set_count 1, periph_role_count 3,
\* central_role_count 3 and central_sec_count 0.
C14_ConfigForEveryName ==
    config # NoConfig => (FixedFields /\ LengthsAreNameLength)

\* C14, amended: the same for every name of at most 65535 bytes; the fixed
\* fields hold for every name.
C14_ConfigForU16Names ==
    config # NoConfig =>
        /\ FixedFields
        /\ keyboard_name_len <= 65535 => LengthsAreNameLength

\* The configuration built for a 3-byte name such as "Foo".
C14_Witness ==
    /\ config # NoConfig
    /\ keyboard_name_len = 3
    /\ config.current_len = 3
    /\ config.max_len = 3

(***************************************************************************)
(* Stalls                                                                  *)
(***************************************************************************)
\* C15: the four sends of a cycle are sequential: while a send is stalled it
\* is the only operation of the cycle that has not returned and the last one
\* begun, so no later sink has been attempted and no new scan has started; as
\* long as it does not return, nothing further is begun.
C15_StalledSendBlocksCycle ==
    /\ [](kb_pc \in SendOps =>
            /\ Len(kb_log) = kb_done + 1
            /\ kb_log[Len(kb_log)] = kb_pc
            /\ \A i \in 1..(Len(kb_log) - 1) : IndexOf(kb_log[i]) < IndexOf(kb_pc))
    /\ [][(kb_pc \in SendOps /\ kb_done' = kb_done) =>
            (kb_pc' = kb_pc /\ kb_log' = kb_log)]_vars

\* The media send has not returned by the end of time: the keyboard send is the
\* only one before it, and the two later sinks have not been attempted.
C15_Witness ==
    /\ kb_pc = "send_media_report"
    /\ now = MaxTime
    /\ kb_done = 2
    /\ kb_log = <<"scan_matrix", "send_keyboard_report", "send_media_report">>

\* The requests of mailbox `ch` are still there, in their order, in `ch2`.
StaysIn(ch, ch2) ==
    /\ Len(ch2) >= Len(ch)
    /\ SubSeq(ch2, 1, Len(ch)) = ch

\* C16: flash_task receives the next request only after the storage operation
\* of the request before has completed: at most one operation is outstanding
\* and every request sent is applied, outstanding or still in the mailbox; as
\* long as the outstanding operation does not complete, no request is received
\* or applied and the requests of the mailbox stay there.
C16_StalledStorageBlocksMailbox ==
    /\ [](/\ Len(inflight) <= 1
          /\ Len(enqueued) = Len(applied) + Len(inflight) + Len(FLASH_CHANNEL)
          /\ (inflight = <<>>) <=> (flash_pc = "receive"))
    /\ [][(inflight # <<>> /\ applied' = applied) =>
            (/\ inflight' = inflight
             /\ flash_info' = flash_info
             /\ store' = store
             /\ StaysIn(FLASH_CHANNEL, FLASH_CHANNEL'))]_vars

\* A store_item that has not completed, with the mailbox filled behind it.
C16_Witness ==
    /\ flash_pc = "store_item"
    /\ Len(inflight) = 1
    /\ Len(FLASH_CHANNEL) = MailboxCapacity
    /\ applied = <<>>

(***************************************************************************)
(* Liveness of the mailbox consumer                                        *)
(***************************************************************************)
\* The n-th request sent has been received, and its storage call has returned.
AppliedNth(n) ==
    /\ Len(applied) >= n
    /\ applied[n].req = enqueued[n]
    /\ applied[n].op = ExpectedOp(enqueued[n])

\* C17: if every storage operation completes and flash_task is scheduled
\* fairly, every request sent to the mailbox is eventually received and
\* applied, whatever the results of the requests before it.
C17_EveryRequestApplied ==
    \A n \in 1..MaxRequests : (Len(enqueued) >= n) ~> AppliedNth(n)

\* The first storage call failed; the two requests after it were applied.
C17_Witness ==
    /\ Len(applied) = MaxRequests
    /\ applied[1].res = "err"
    /\ \A n \in 1..MaxRequests : AppliedNth(n)
    /\ FLASH_CHANNEL = <<>>

(***************************************************************************)
(* Isolation of the tasks                                                  *)
(***************************************************************************)
StorageOps == {"remove_item", "store_item"}

\* What flash_task itself reads and writes, the mailbox aside.
FlashState == <<flash_pc, flash_info, inflight, store, applied>>

\* C18: the tasks do not hold each other up.  Whatever the keyboard task is
\* stalled in and whether or not the battery task sleeps, flash_task can
\* receive a waiting request and its storage call can complete; whatever
\* flash_task is stalled in, the scan and the sends of the keyboard task can
\* return and the next operation begin; and a step of one of them leaves the
\* other where it was.
C18_TaskIsolation ==
    /\ [](/\ (flash_pc = "receive" /\ FLASH_CHANNEL # <<>>) => ENABLED FlashReceive
          /\ flash_pc \in StorageOps => ENABLED FlashStorageDone
          /\ kb_pc = "scan_matrix" => ENABLED KbScanDone
          /\ kb_pc \in SendOps => ENABLED KbSendDone)
    /\ [][(FlashState' # FlashState) => UNCHANGED <<kbVars, batVars>>]_vars
    /\ [][(kbVars' # kbVars) => UNCHANGED <<flashVars, batVars>>]_vars

\* The keyboard send has not returned by the end of time and the battery task
\* sleeps; flash_task has applied one request and the next one is waiting.
C18_Witness ==
    /\ now = MaxTime
    /\ kb_pc = "send_keyboard_report"
    /\ bat_pc = "period_timer"
    /\ flash_pc = "receive"
    /\ Len(applied) = 1
    /\ Len(FLASH_CHANNEL) = 1

(***************************************************************************)
(* Frame conditions                                                        *)
(***************************************************************************)
\* The slot a request is about.
SlotOf(m) == IF m.tag = "Clear" THEN m.key ELSE m.b.slot_num

\* This step completes the storage call of the request in flash_info.
Completes == Len(applied') = Len(applied) + 1

\* This step is flash_task receiving a request.
Receives == flash_info = NoMsg /\ flash_info' # NoMsg

\* C19: applying Clear(k), or the Save of a record with slot k, changes the
\* store at slot k only; the store changes in no other step; and of the
\* mailbox flash_task changes nothing but to take out the one request it
\* receives.
C19_FlashTaskFrame ==
    /\ [][Completes =>
            (/\ \A k \in DOMAIN store : k # SlotOf(flash_info) => store'[k] = store[k]
             /\ FLASH_CHANNEL' = FLASH_CHANNEL)]_vars
    /\ [][Receives =>
            (/\ flash_info' = Head(FLASH_CHANNEL)
             /\ FLASH_CHANNEL' = Tail(FLASH_CHANNEL)
             /\ store' = store)]_vars
    /\ [][(store' # store) => Completes]_vars

\* Records were saved under both slots and the first one cleared, all three
\* calls succeeding: the record of the other slot is still there.
C19_Witness ==
    /\ Len(applied) = 3
    /\ AllOk
    /\ SlotOf(applied[1].req) = BONDED_DEVICE_NUM - 1
    /\ applied[1].req.tag = "BondInfo"
    /\ applied[2].req.tag = "BondInfo"
    /\ SlotOf(applied[2].req) = BONDED_DEVICE_NUM
    /\ applied[3].req = [tag |-> "Clear", key |-> BONDED_DEVICE_NUM - 1]
    /\ store[BONDED_DEVICE_NUM - 1] = NoRecord
    /\ store[BONDED_DEVICE_NUM] = applied[2].req.b.data

(***************************************************************************)
(* The result of the scan                                                  *)
(***************************************************************************)
\* This step is scan_matrix returning an error.
ScanFails ==
    /\ kb_pc = "scan_matrix"
    /\ kb_err' = "scan_matrix"
    /\ kb_done' = 1

\* C20: the result of the scan is discarded: when scan_matrix returns an
\* error the keyboard send is begun next, the cycle that follows a failed scan
\* attempts the four sends in the usual order and goes on to the next scan, and
\* the task does not end.
C20_ScanResultDiscarded ==
    /\ [](kb_pc # "returned")
    /\ [][ScanFails =>
            (/\ kb_pc' = "send_keyboard_report"
             /\ kb_log' = <<"scan_matrix", "send_keyboard_report">>)]_vars
    /\ [](kb_err = "scan_matrix" =>
            /\ Len(kb_log) >= 2
            /\ \A i \in DOMAIN kb_log : kb_log[i] = ExpectedCycle[i])
    /\ [][(kb_err = "scan_matrix" /\ kb_done' # kb_done /\ Len(kb_log) <= Len(CycleOrder)) =>
            kb_log' = SubSeq(ExpectedCycle, 1, Len(kb_log) + 1)]_vars

\* The scan failed, the four sends were attempted, the next scan has begun.
C20_Witness ==
    /\ kb_err = "scan_matrix"
    /\ kb_log = ExpectedCycle
    /\ kb_pc = "scan_matrix"
    /\ kb_done = Len(CycleOrder)

====
